---- MODULE Spec2Model ----
(***************************************************************************)
(* Booking-curve analytics of NomuTaro/Creal_Project.                      *)
(*                                                                         *)
(* Two batch programs share their first two sections line for line:        *)
(*   booking_analyzer01-01.py  analyze_and_plot_optimal_booking_curves     *)
(*                             (one exemplar per listing, "global best")   *)
(*   booking_analyzer01-02.py  analyze_and_plot_peer_group_champions       *)
(*                             (one exemplar per price tier)               *)
(*                                                                         *)
(* A run is a state machine over the program's tables (df, daily_kpi,      *)
(* best_dates); one action per numbered section of the function body.      *)
(* pc is the section to run next, or "returned" (file not found), "error"  *)
(* (an uncaught exception) or "done".                                      *)
(* pandas semantics are those of the pandas 1.x / 2.x line the code is     *)
(* written for (in-place fillna on a column selection takes effect, a      *)
(* groupby on a categorical key reports every category).  Quotients        *)
(* (RevPAR, ADR, ratios, quantile edges) are exact rationals <<n, d>>.     *)
(***************************************************************************)
EXTENDS Integers, Sequences, FiniteSets, TLC

VARIABLES program, found, csv, pc, df, daily_kpi, best_dates

vars == <<program, found, csv, pc, df, daily_kpi, best_dates>>

(***************************************************************************)
(* Program constants.                                                      *)
(***************************************************************************)
MinMaxStock == 30
Days120 == 120
Days30 == 30
ThresholdNum == 1
ThresholdDen == 2
num_tiers == 3

\* Missing values: NaN in a numeric column, NaT in a datetime column.
NaN == -1
NaT == -1
\* A date string that pd.to_datetime cannot parse.
Unparseable == -2

(***************************************************************************)
(* Bounds of the model.                                                    *)
(***************************************************************************)
MaxRows == 3
MaxGroups == 3

(***************************************************************************)
(* Generic helpers.                                                        *)
(***************************************************************************)
Max0(a, b) == IF a >= b THEN a ELSE b

RECURSIVE SumSeq(_)
SumSeq(s) == IF s = <<>> THEN 0 ELSE Head(s) + SumSeq(Tail(s))

\* Lexicographic order on equal-length tuples of integers.
RECURSIVE TupleLess(_, _)
TupleLess(a, b) ==
    IF a = <<>> THEN FALSE
    ELSE IF Head(a) # Head(b) THEN Head(a) < Head(b)
    ELSE TupleLess(Tail(a), Tail(b))

\* The elements of a finite set of tuples as an ascending sequence.
RECURSIVE SortedKeys(_)
SortedKeys(S) ==
    IF S = {} THEN <<>>
    ELSE LET m == CHOOSE x \in S : \A y \in S : ~TupleLess(y, x)
         IN <<m>> \o SortedKeys(S \ {m})

(***************************************************************************)
(* Exact rationals <<n, d>>, d > 0.                                        *)
(***************************************************************************)
RatLess(a, b) == a[1] * b[2] < b[1] * a[2]
RatEq(a, b) == a[1] * b[2] = b[1] * a[2]
RatLeq(a, b) == a[1] * b[2] <= b[1] * a[2]
RatAdd(a, b) == <<a[1] * b[2] + b[1] * a[2], a[2] * b[2]>>
RatSub(a, b) == <<a[1] * b[2] - b[1] * a[2], a[2] * b[2]>>
RatScale(a, n, d) == <<a[1] * n, a[2] * d>>

RECURSIVE Gcd(_, _)
Gcd(a, b) == IF b = 0 THEN a ELSE Gcd(b, a % b)

\* Lowest terms, so that equal values are equal tuples.
RatNorm(a) ==
    IF a[1] = 0 THEN <<0, 1>>
    ELSE LET g == Gcd(IF a[1] < 0 THEN -a[1] ELSE a[1], a[2])
         IN <<a[1] \div g, a[2] \div g>>

(***************************************************************************)
(* Keys.                                                                   *)
(***************************************************************************)
ListingKey(r) == <<r.hotel_id, r.plan_id, r.room_type_id>>
GroupKey(r) == <<r.hotel_id, r.plan_id, r.room_type_id, r.date>>
SortKey(r) == <<r.hotel_id, r.plan_id, r.room_type_id, r.date, r.created_at>>

Rows(t) == {t[i] : i \in 1..Len(t)}

(***************************************************************************)
(* Inputs: the CSV files a run is started on.                              *)
(***************************************************************************)
Programs == {"optimal_booking_curves", "peer_group_champions"}
Listings == {<<1, 1, 1>>, <<1, 1, 2>>, <<2, 1, 1>>}
Dates == {200, 290}
Stocks == {20, 29, 30}
Prices == {1, 2}
\* created_at of the i-th row of a free-row file (not in time order).
ObsTimes == <<260, 50, 80, 170, 140>>

RawRow(l, d, c, s, p) ==
    [hotel_id |-> l[1], plan_id |-> l[2], room_type_id |-> l[3],
     date |-> d, created_at |-> c, stock |-> s, price |-> p]

\* A file of n arbitrary rows of two listings; the last row's created_at
\* field may be empty (NaT) or unparseable.
FreeListings == {<<1, 1, 1>>, <<1, 1, 2>>}
FreeCells == FreeListings \X Dates \X Stocks
FreeRowFile(n, f, last) ==
    [i \in 1..n |->
        RawRow(f[i][1], f[i][2], IF i = n THEN last ELSE ObsTimes[i], f[i][3], 1)]

\* A file of two-snapshot booking curves: each present (listing, stay date)
\* starts at stock 30 and sells 10 rooms at one price: 121 days ("early"),
\* exactly 120 days ("mid") or exactly 30 days ("late") before the stay
\* date.  The rows are written newest first.
Curves == {"early", "mid", "late"} \X Prices
SaleTime(d, when) ==
    IF when = "late" THEN d - Days30
    ELSE IF when = "mid" THEN d - Days120 ELSE d - Days120 - 1
CurveRows(g, c) ==
    << RawRow(<<g[1], g[2], g[3]>>, g[4], SaleTime(g[4], c[1]), 20, c[2]),
       RawRow(<<g[1], g[2], g[3]>>, g[4], 40, 30, c[2]) >>
AllGroups == {<<l[1], l[2], l[3], d>> : l \in Listings, d \in Dates}

RECURSIVE ConcatCurves(_, _)
ConcatCurves(keys, f) ==
    IF keys = <<>> THEN <<>>
    ELSE ConcatCurves(Tail(keys), f) \o CurveRows(Head(keys), f[Head(keys)])

CurveFile(G, f) == ConcatCurves(SortedKeys(G), f)

\* The scenario of the specification: stock 30,30,20,20,10 of one listing
\* and stay date.
ScenarioFile ==
    << RawRow(<<1, 1, 1>>, 200, 40, 30, 1), RawRow(<<1, 1, 1>>, 200, 50, 30, 1),
       RawRow(<<1, 1, 1>>, 200, 80, 20, 1), RawRow(<<1, 1, 1>>, 200, 170, 20, 1),
       RawRow(<<1, 1, 1>>, 200, 180, 10, 1) >>

IsFile(c) ==
    \/ \E n \in 1..MaxRows : \E f \in [1..n -> FreeCells] :
          \E last \in {ObsTimes[n], NaT, Unparseable} : c = FreeRowFile(n, f, last)
    \/ \E G \in {H \in SUBSET AllGroups : Cardinality(H) <= MaxGroups} :
          \E f \in [G -> Curves] : c = CurveFile(G, f)
    \/ c = ScenarioFile

(***************************************************************************)
(* Section 1: read the file, parse the two date columns, drop rows with a  *)
(* missing field.                                                          *)
(***************************************************************************)
\* pd.to_datetime with the default errors='raise'.
ToDatetimeRaises(t) ==
    \E i \in 1..Len(t) : t[i].created_at = Unparseable \/ t[i].date = Unparseable

HasNa(r) ==
    \/ r.created_at = NaT \/ r.date = NaT
    \/ r.stock = NaN \/ r.price = NaN

DropNa(t) == SelectSeq(t, LAMBDA r : ~HasNa(r))

(***************************************************************************)
(* Section 2: capacity filter, sold units and revenue per snapshot.        *)
(***************************************************************************)
\* groupby(listing)['stock'].max()
MaxStockOf(t, k) ==
    LET S == {t[i].stock : i \in {j \in 1..Len(t) : ListingKey(t[j]) = k}}
    IN CHOOSE m \in S : \A x \in S : x <= m

\* pd.merge(df, max_stock_df, on=listing): every row gets its listing's max.
MergeMaxStock(t) ==
    [i \in 1..Len(t) |->
        [hotel_id |-> t[i].hotel_id, plan_id |-> t[i].plan_id,
         room_type_id |-> t[i].room_type_id, date |-> t[i].date,
         created_at |-> t[i].created_at, stock |-> t[i].stock,
         price |-> t[i].price, max_stock |-> MaxStockOf(t, ListingKey(t[i]))]]

\* Mutant: the capacity filter with a strict comparison.
KeepLargeListingsStrict(t) == SelectSeq(t, LAMBDA r : r.max_stock > MinMaxStock)

KeepLargeListings(t) == SelectSeq(t, LAMBDA r : r.max_stock >= MinMaxStock)

\* Stable insertion by SortKey (sort_values on several columns is a stable
\* lexsort).
RECURSIVE InsertStable(_, _)
InsertStable(s, r) ==
    IF s = <<>> THEN <<r>>
    ELSE IF TupleLess(SortKey(r), SortKey(Head(s))) THEN <<r>> \o s
    ELSE <<Head(s)>> \o InsertStable(Tail(s), r)

RECURSIVE SortValues(_)
SortValues(t) ==
    IF t = <<>> THEN <<>>
    ELSE InsertStable(SortValues(SubSeq(t, 1, Len(t) - 1)), t[Len(t)])

\* Mutant: the shift grouped by listing only, across stay dates.
StockShiftByListing(t, i) ==
    LET prev == {j \in 1..(i - 1) : ListingKey(t[j]) = ListingKey(t[i])}
    IN IF prev = {} THEN NaN
       ELSE t[CHOOSE j \in prev : \A k \in prev : k <= j].stock

\* groupby(listing, date)['stock'].shift(1): the stock of the nearest earlier
\* row of the same group, NaN for the first row of a group.
StockShift(t, i) ==
    LET prev == {j \in 1..(i - 1) : GroupKey(t[j]) = GroupKey(t[i])}
    IN IF prev = {} THEN NaN
       ELSE t[CHOOSE j \in prev : \A k \in prev : k <= j].stock

\* (stock_shift - stock).clip(lower=0).fillna(0)
Sold(t, i) ==
    LET s == StockShift(t, i)
    IN IF s = NaN THEN 0 ELSE Max0(s - t[i].stock, 0)

WithSales(t) ==
    [i \in 1..Len(t) |->
        [hotel_id |-> t[i].hotel_id, plan_id |-> t[i].plan_id,
         room_type_id |-> t[i].room_type_id, date |-> t[i].date,
         created_at |-> t[i].created_at, stock |-> t[i].stock,
         price |-> t[i].price, max_stock |-> t[i].max_stock,
         sold |-> Sold(t, i), revenue |-> Sold(t, i) * t[i].price]]

Metrics(t) == WithSales(SortValues(KeepLargeListings(MergeMaxStock(t))))

(***************************************************************************)
(* Section 3a/3b: one KPI row per (listing, stay date).                    *)
(***************************************************************************)
GroupRows(t, k) == SelectSeq(t, LAMBDA r : GroupKey(r) = k)

SumSold(t) == SumSeq([i \in 1..Len(t) |-> t[i].sold])
SumRevenue(t) == SumSeq([i \in 1..Len(t) |-> t[i].revenue])

\* a / b as pandas divides two columns, then .fillna(0): 0/0 is NaN and
\* becomes 0; x/0 is infinite (<<1, 0>>) and stays.
Quotient(n, d) == IF n = 0 /\ d = 0 THEN <<0, 1>> ELSE
                  IF d = 0 THEN <<1, 0>> ELSE RatNorm(<<n, d>>)

\* groupby(listing, date).agg(sum, sum, first).reset_index(): key order.
AggregateKpi(t) ==
    LET keys == SortedKeys({GroupKey(r) : r \in Rows(t)})
    IN [i \in 1..Len(keys) |->
          LET g == GroupRows(t, keys[i])
          IN [hotel_id |-> keys[i][1], plan_id |-> keys[i][2],
              room_type_id |-> keys[i][3], date |-> keys[i][4],
              total_revenue |-> SumRevenue(g), total_sold |-> SumSold(g),
              max_stock |-> g[1].max_stock]]

\* Mutant: the rows without sales are kept.
KeepNoSales(k) == SelectSeq(k, LAMBDA r : r.total_sold >= 0)

DropNoSales(k) == SelectSeq(k, LAMBDA r : r.total_sold > 0)

(***************************************************************************)
(* Section 3c/3d: the early and the late window joins.                     *)
(***************************************************************************)
\* Mutant: the early window closed at exactly 120 days.
Before120Inclusive(t) == SelectSeq(t, LAMBDA r : r.created_at <= r.date - Days120)

Before120(t) == SelectSeq(t, LAMBDA r : r.created_at < r.date - Days120)
Last30(t) == SelectSeq(t, LAMBDA r : r.created_at >= r.date - Days30)

\* groupby(listing, date)['sold'].sum() of the window, left-merged: NaN for
\* a KPI row whose group has no row in the window.
LeftMergeSum(window, k) ==
    LET g == GroupRows(window, k)
    IN IF g = <<>> THEN NaN ELSE SumSold(g)

FillNa0(v) == IF v = NaN THEN 0 ELSE v

SoldBefore120(t, r) == FillNa0(LeftMergeSum(Before120(t), GroupKey(r)))
SoldLast30(t, r) == FillNa0(LeftMergeSum(Last30(t), GroupKey(r)))

\* daily_kpi of booking_analyzer01-01.py after steps a to d.
OptimalKpi(t) ==
    LET k == DropNoSales(AggregateKpi(t))
    IN [i \in 1..Len(k) |->
          [hotel_id |-> k[i].hotel_id, plan_id |-> k[i].plan_id,
           room_type_id |-> k[i].room_type_id, date |-> k[i].date,
           total_revenue |-> k[i].total_revenue,
           total_sold |-> k[i].total_sold, max_stock |-> k[i].max_stock,
           RevPAR |-> Quotient(k[i].total_revenue, k[i].max_stock),
           sold_before_120 |-> SoldBefore120(t, k[i]),
           booking_rate_at_120_days |->
               Quotient(SoldBefore120(t, k[i]), k[i].max_stock),
           sold_last_30 |-> SoldLast30(t, k[i]),
           last_30_days_booking_ratio |->
               Quotient(SoldLast30(t, k[i]), k[i].total_sold)]]

(***************************************************************************)
(* Selection: keep the last-minute rows, sort by RevPAR descending, take   *)
(* the first row of every group.                                           *)
(***************************************************************************)
last_minute_threshold == <<ThresholdNum, ThresholdDen>>

MeetsThreshold(r) == RatLeq(last_minute_threshold, r.last_30_days_booking_ratio)

\* Mutant: the threshold filter is skipped.
LastMinuteCasesUnfiltered(k) == SelectSeq(k, LAMBDA r : TRUE)

LastMinuteCases(k) == SelectSeq(k, LAMBDA r : MeetsThreshold(r))

\* sort_values('RevPAR', ascending=False) sorts one column with the default
\* kind='quicksort', which is not stable: every order that is non-increasing
\* in RevPAR is a possible result.
RECURSIVE SortedOrders(_)
SortedOrders(S) ==
    IF S = {} THEN {<<>>}
    ELSE UNION { { <<r>> \o o : o \in SortedOrders(S \ {r}) }
                 : r \in {x \in S : \A y \in S : ~RatLess(x.RevPAR, y.RevPAR)} }

FirstOf(o, Keep) ==
    o[CHOOSE i \in 1..Len(o) : Keep[i] /\ \A j \in 1..(i - 1) : ~Keep[j]]

\* groupby(listing, as_index=False).first(): groups in key order, the first
\* row of each in the sorted order.
FirstPerListing(o) ==
    LET keys == SortedKeys({ListingKey(r) : r \in Rows(o)})
    IN [i \in 1..Len(keys) |->
          FirstOf(o, [j \in 1..Len(o) |-> ListingKey(o[j]) = keys[i]])]

(***************************************************************************)
(* Section 3b-3d of booking_analyzer01-02.py: ADR, characteristic price,   *)
(* price tiers.                                                            *)
(***************************************************************************)
RECURSIVE InsertRat(_, _)
InsertRat(s, x) ==
    IF s = <<>> THEN <<x>>
    ELSE IF RatLess(x, Head(s)) THEN <<x>> \o s
    ELSE <<Head(s)>> \o InsertRat(Tail(s), x)

RECURSIVE SortRats(_)
SortRats(s) ==
    IF s = <<>> THEN <<>>
    ELSE InsertRat(SortRats(Tail(s)), Head(s))

\* Series.median(): the middle value, or the mean of the two middle values.
Median(s) ==
    LET o == SortRats(s)
        n == Len(o)
    IN IF n % 2 = 1 THEN o[(n + 1) \div 2]
       ELSE RatNorm(RatScale(RatAdd(o[n \div 2], o[n \div 2 + 1]), 1, 2))

\* groupby(listing)['ADR'].median() for the listing of row r.
CharacteristicPrice(k, r) ==
    LET own == SelectSeq(k, LAMBDA x : ListingKey(x) = ListingKey(r))
    IN Median([i \in 1..Len(own) |-> own[i].ADR])

\* Series.quantile(i / q) of the ascending values o, linear interpolation.
Quantile(o, i, q) ==
    LET pos == i * (Len(o) - 1)
        lo == pos \div q + 1
        rem == pos % q
    IN IF rem = 0 THEN o[lo]
       ELSE RatNorm(RatAdd(o[lo], RatScale(RatSub(o[lo + 1], o[lo]), rem, q)))

\* The q + 1 quantile edges with duplicates dropped (duplicates='drop').
RECURSIVE DropDuplicates(_)
DropDuplicates(e) ==
    IF Len(e) <= 1 THEN e
    ELSE IF RatEq(e[1], e[2]) THEN DropDuplicates(Tail(e))
    ELSE <<e[1]>> \o DropDuplicates(Tail(e))

QcutBins(x, q) ==
    LET o == SortRats(x)
    IN IF o = <<>> THEN <<>>
       ELSE DropDuplicates([i \in 1..(q + 1) |-> Quantile(o, i - 1, q)])

\* ['matsu (high)', 'take (mid)', 'ume (low)'][::-1][:num_tiers]
AllTierLabels == <<"ume_low", "take_mid", "matsu_high">>
tier_labels == SubSeq(AllTierLabels, 1, num_tiers)
SingleGroup == "single_group"

\* Mutant: pd.qcut raises only when no bin is left.
QcutRaisesWithoutBins(x, q) == Len(QcutBins(x, q)) < 2

\* pd.qcut raises ValueError unless there is one label per bin.
QcutRaises(x, q) == Len(tier_labels) # Len(QcutBins(x, q)) - 1

\* Right-closed bins, the lowest edge included in the first.
BinOf(v, bins) ==
    IF RatEq(v, bins[1]) THEN 1
    ELSE CHOOSE b \in 1..(Len(bins) - 1) :
            RatLess(bins[b], v) /\ RatLeq(v, bins[b + 1])

\* The series handed to pd.qcut: the characteristic_price column of
\* daily_kpi, one value per KPI row.
QcutInput(k) == [i \in 1..Len(k) |-> k[i].characteristic_price]

PriceTier(k, r) ==
    IF QcutRaises(QcutInput(k), num_tiers) THEN SingleGroup
    ELSE tier_labels[BinOf(r.characteristic_price,
                           QcutBins(QcutInput(k), num_tiers))]

WithAdr(t) ==
    LET k == DropNoSales(AggregateKpi(t))
    IN [i \in 1..Len(k) |->
          [hotel_id |-> k[i].hotel_id, plan_id |-> k[i].plan_id,
           room_type_id |-> k[i].room_type_id, date |-> k[i].date,
           total_revenue |-> k[i].total_revenue,
           total_sold |-> k[i].total_sold, max_stock |-> k[i].max_stock,
           RevPAR |-> Quotient(k[i].total_revenue, k[i].max_stock),
           ADR |-> Quotient(k[i].total_revenue, k[i].total_sold)]]

WithCharacteristicPrice(k) ==
    [i \in 1..Len(k) |->
        [hotel_id |-> k[i].hotel_id, plan_id |-> k[i].plan_id,
         room_type_id |-> k[i].room_type_id, date |-> k[i].date,
         total_revenue |-> k[i].total_revenue,
         total_sold |-> k[i].total_sold, max_stock |-> k[i].max_stock,
         RevPAR |-> k[i].RevPAR, ADR |-> k[i].ADR,
         characteristic_price |-> CharacteristicPrice(k, k[i])]]

\* daily_kpi of booking_analyzer01-02.py at the end of section 3.
PeerKpi(t) ==
    LET k == WithCharacteristicPrice(WithAdr(t))
    IN [i \in 1..Len(k) |->
          [hotel_id |-> k[i].hotel_id, plan_id |-> k[i].plan_id,
           room_type_id |-> k[i].room_type_id, date |-> k[i].date,
           total_revenue |-> k[i].total_revenue,
           total_sold |-> k[i].total_sold, max_stock |-> k[i].max_stock,
           RevPAR |-> k[i].RevPAR, ADR |-> k[i].ADR,
           characteristic_price |-> k[i].characteristic_price,
           price_tier |-> PriceTier(k, k[i])]]

(***************************************************************************)
(* Section 4 of booking_analyzer01-02.py: late-window ratio, threshold,    *)
(* best row per price tier.                                                *)
(***************************************************************************)
WithLast30(t, k) ==
    [i \in 1..Len(k) |->
        [hotel_id |-> k[i].hotel_id, plan_id |-> k[i].plan_id,
         room_type_id |-> k[i].room_type_id, date |-> k[i].date,
         total_revenue |-> k[i].total_revenue,
         total_sold |-> k[i].total_sold, max_stock |-> k[i].max_stock,
         RevPAR |-> k[i].RevPAR, ADR |-> k[i].ADR,
         characteristic_price |-> k[i].characteristic_price,
         price_tier |-> k[i].price_tier,
         sold_last_30 |-> SoldLast30(t, k[i]),
         last_30_days_booking_ratio |->
             Quotient(SoldLast30(t, k[i]), k[i].total_sold)]]

\* The row groupby(...).first() reports for a category without rows.
EmptyTierRow(tier) ==
    [hotel_id |-> NaN, plan_id |-> NaN, room_type_id |-> NaN, date |-> NaT,
     total_revenue |-> NaN, total_sold |-> NaN, max_stock |-> NaN,
     RevPAR |-> <<0, 0>>, ADR |-> <<0, 0>>, characteristic_price |-> <<0, 0>>,
     price_tier |-> tier, sold_last_30 |-> NaN,
     last_30_days_booking_ratio |-> <<0, 0>>]

\* price_tier is categorical when pd.qcut assigned it, a plain string column
\* after the fallback.
IsCategorical(k) == k # <<>> /\ k[1].price_tier # SingleGroup

\* groupby(['price_tier']).first().reset_index() of the sorted rows o: with
\* a categorical key every category is a group, in category order.
FirstPerTier(o, categorical) ==
    LET tiers == IF categorical THEN tier_labels
                 ELSE IF o = <<>> THEN <<>> ELSE <<SingleGroup>>
    IN [i \in 1..Len(tiers) |->
          LET Keep == [j \in 1..Len(o) |-> o[j].price_tier = tiers[i]]
          IN IF \E j \in 1..Len(o) : Keep[j] THEN FirstOf(o, Keep)
             ELSE EmptyTierRow(tiers[i])]

(***************************************************************************)
(* Section 4 of 01-01 / 5 of 01-02: one chart per row of best_dates.  The  *)
(* chart's legend formats int(g['max_stock']), which raises on NaN.        *)
(***************************************************************************)
PlotRaises(b) == \E i \in 1..Len(b) : b[i].max_stock = NaN

(***************************************************************************)
(* The run.                                                                *)
(***************************************************************************)
Init ==
    /\ program \in Programs
    /\ \/ found = TRUE /\ IsFile(csv)
       \/ found = FALSE /\ csv = <<>>
    /\ pc = "read"
    /\ df = <<>>
    /\ daily_kpi = <<>>
    /\ best_dates = <<>>

\* Section 1 of both programs.
ReadCsv ==
    /\ pc = "read"
    /\ IF ~found
       THEN pc' = "returned" /\ df' = df
       ELSE IF ToDatetimeRaises(csv)
       THEN pc' = "error" /\ df' = df
       ELSE pc' = "metrics" /\ df' = DropNa(csv)
    /\ UNCHANGED <<program, found, csv, daily_kpi, best_dates>>

\* Section 2 of both programs.
ComputeMetrics ==
    /\ pc = "metrics"
    /\ df' = Metrics(df)
    /\ pc' = "kpi"
    /\ UNCHANGED <<program, found, csv, daily_kpi, best_dates>>

\* Section 3 of booking_analyzer01-01.py.
SelectBestDates ==
    /\ pc = "kpi"
    /\ program = "optimal_booking_curves"
    /\ daily_kpi' = OptimalKpi(df)
    /\ \E o \in SortedOrders(Rows(LastMinuteCases(daily_kpi'))) :
          best_dates' = FirstPerListing(o)
    /\ pc' = "plot"
    /\ UNCHANGED <<program, found, csv, df>>

\* Section 3 of booking_analyzer01-02.py.
PreparePeerGroups ==
    /\ pc = "kpi"
    /\ program = "peer_group_champions"
    /\ daily_kpi' = PeerKpi(df)
    /\ pc' = "select"
    /\ UNCHANGED <<program, found, csv, df, best_dates>>

\* Section 4 of booking_analyzer01-02.py.
SelectPeerChampions ==
    /\ pc = "select"
    /\ daily_kpi' = WithLast30(df, daily_kpi)
    /\ \E o \in SortedOrders(Rows(LastMinuteCases(daily_kpi'))) :
          best_dates' = FirstPerTier(o, IsCategorical(daily_kpi'))
    /\ pc' = "plot"
    /\ UNCHANGED <<program, found, csv, df>>

\* The chart loop.
Plot ==
    /\ pc = "plot"
    /\ pc' = IF PlotRaises(best_dates) THEN "error" ELSE "done"
    /\ UNCHANGED <<program, found, csv, df, daily_kpi, best_dates>>

Next ==
    \/ ReadCsv
    \/ ComputeMetrics
    \/ SelectBestDates
    \/ PreparePeerGroups
    \/ SelectPeerChampions
    \/ Plot

Spec == Init /\ [][Next]_vars

(***************************************************************************)
(* Properties.                                                             *)
(***************************************************************************)
\* The rows of the file that survive normalization.
Snapshots == {r \in Rows(csv) : r.created_at # NaT /\ r.date # NaT}

ListingMaxStock(l) ==
    LET S == {r.stock : r \in {x \in Snapshots : ListingKey(x) = l}}
    IN CHOOSE m \in S : \A x \in S : x <= m

\* df carries sold and revenue.
MetricsDone ==
    pc \notin {"read", "returned", "metrics"} /\ ~ToDatetimeRaises(csv)
\* daily_kpi and best_dates are final.
SelectionDone == MetricsDone /\ pc \notin {"kpi", "select"}

RECURSIVE SetSumSold(_)
SetSumSold(S) ==
    IF S = {} THEN 0
    ELSE LET x == CHOOSE y \in S : TRUE IN x.sold + SetSumSold(S \ {x})

\* The snapshot of the same listing and stay date observed last before r.
Predecessors(r) ==
    {x \in Snapshots : GroupKey(x) = GroupKey(r) /\ x.created_at < r.created_at}
Predecessor(r) ==
    CHOOSE x \in Predecessors(r) :
        \A y \in Predecessors(r) : y.created_at <= x.created_at

\* C1: in every (listing, stay date) group of a retained listing the first
\* snapshot in observed_at order has sold = 0 and every later one has
\* sold = max(stock of the snapshot observed just before it in the same
\* group - its own stock, 0); no sold value is negative; the stock sequence
\* 30,30,20,20,10 gives sold 0,0,10,0,10 and total_sold 20.
C1_SoldFromPredecessor ==
    MetricsDone =>
        /\ \A r \in Rows(df) :
              /\ r.sold >= 0
              /\ \E x \in Snapshots :
                    /\ SortKey(x) = SortKey(r) /\ x.stock = r.stock
                    /\ r.sold = IF Predecessors(x) = {} THEN 0
                                ELSE Max0(Predecessor(x).stock - x.stock, 0)
        /\ csv = ScenarioFile =>
              /\ [i \in 1..Len(df) |-> df[i].sold] = <<0, 0, 10, 0, 10>>
              /\ pc \in {"plot", "done"} => daily_kpi[1].total_sold = 20

\* A group of three snapshots, written out of time order, with a sale and
\* then a restock, next to a snapshot of another stay date of the listing.
C1_Witness ==
    /\ MetricsDone
    /\ \E i, j, k \in 1..Len(df) :
          /\ i < j /\ j < k
          /\ GroupKey(df[i]) = GroupKey(df[j]) /\ GroupKey(df[j]) = GroupKey(df[k])
          /\ df[j].sold > 0 /\ df[k].stock > df[j].stock /\ df[k].sold = 0
    /\ \E a, b \in 1..Len(csv) : a < b /\ csv[a].created_at > csv[b].created_at

\* C5: max_stock of a listing is the maximum stock over all its snapshots,
\* of every stay date; a listing is kept, with all its snapshots, iff that
\* maximum is at least 30, and a smaller listing has no sale event, no
\* DailyKpi row and no exemplar.
C5_CapacityFilter ==
    MetricsDone =>
        /\ \A r \in Rows(df) : r.max_stock = ListingMaxStock(ListingKey(r))
        /\ \A x \in Snapshots :
              (ListingMaxStock(ListingKey(x)) >= 30)
                  <=> (\E r \in Rows(df) : SortKey(r) = SortKey(x) /\ r.stock = x.stock)
        /\ \A r \in Rows(daily_kpi) \cup {b \in Rows(best_dates) : b.max_stock # NaN} :
              /\ \E x \in Snapshots : ListingKey(x) = ListingKey(r)
              /\ ListingMaxStock(ListingKey(r)) >= 30

\* A listing kept at exactly 30 whose other stay date never exceeds 29,
\* beside a listing dropped at 29.
C5_Witness ==
    /\ MetricsDone
    /\ \E r, q \in Rows(df) :
          /\ ListingKey(r) = ListingKey(q) /\ r.date # q.date
          /\ r.stock = 29 /\ q.stock = 30 /\ r.max_stock = 30
    /\ \E x \in Snapshots :
          ListingMaxStock(ListingKey(x)) = 29
              /\ \A r \in Rows(df) : ListingKey(r) # ListingKey(x)

IsOptimal == program = "optimal_booking_curves"
IsPeer == program = "peer_group_champions"

\* The sale events of the listing and stay date of KPI row r.
SaleEvents(r) == {e \in Rows(df) : GroupKey(e) = GroupKey(r)}
DaysBefore(e) == e.date - e.created_at

\* C4: sold_before_120 of a DailyKpi row is the sum of sold over the sale
\* events of its listing and stay date observed more than 120 days before
\* the stay date, sold_last_30 the sum over those observed at most 30 days
\* before it (exactly 30 days is late, exactly 120 days is not early); with
\* no such event the value is 0, never a missing value.
C4_WindowJoins ==
    SelectionDone =>
        \A r \in Rows(daily_kpi) :
            /\ r.sold_last_30 =
                   SetSumSold({e \in SaleEvents(r) : DaysBefore(e) <= 30})
            /\ r.sold_last_30 # NaN
            /\ IsOptimal =>
                  /\ r.sold_before_120 =
                         SetSumSold({e \in SaleEvents(r) : DaysBefore(e) > 120})
                  /\ r.sold_before_120 # NaN

\* One stay date sold exactly 120 days ahead (neither early nor late, both
\* sums 0 by default), one sold exactly 30 days ahead, one sold 121 days
\* ahead.
C4_Witness ==
    /\ SelectionDone /\ IsOptimal
    /\ \E r \in Rows(daily_kpi) :
          /\ \E e \in SaleEvents(r) : e.sold > 0 /\ DaysBefore(e) = 120
          /\ r.sold_before_120 = 0 /\ r.sold_last_30 = 0
    /\ \E r \in Rows(daily_kpi) :
          /\ \E e \in SaleEvents(r) : e.sold > 0 /\ DaysBefore(e) = 30
          /\ r.sold_last_30 > 0
    /\ \E r \in Rows(daily_kpi) :
          /\ \E e \in SaleEvents(r) : e.sold > 0 /\ DaysBefore(e) = 121
          /\ r.sold_before_120 > 0

\* C10: every DailyKpi row that survives aggregation has total_sold > 0 and
\* max_stock >= 30; the early and the late window are disjoint, so
\* sold_before_120 + sold_last_30 <= total_sold and the last-30-days ratio
\* lies in [0, 1]; no quotient has a zero denominator.
C10_KpiRowsWellFormed ==
    SelectionDone =>
        \A r \in Rows(daily_kpi) :
            /\ r.total_sold > 0
            /\ r.max_stock >= 30
            /\ r.RevPAR[2] > 0
            /\ r.last_30_days_booking_ratio[2] > 0
            /\ r.last_30_days_booking_ratio[1] >= 0
            /\ r.last_30_days_booking_ratio[1] <= r.last_30_days_booking_ratio[2]
            /\ r.sold_last_30 >= 0 /\ r.sold_last_30 <= r.total_sold
            /\ IsOptimal =>
                  /\ r.sold_before_120 >= 0
                  /\ r.sold_before_120 + r.sold_last_30 <= r.total_sold
                  /\ r.booking_rate_at_120_days[2] > 0
            /\ IsPeer => r.ADR[2] > 0

\* A row with sales in the early and in the late window.
C10_Witness ==
    /\ SelectionDone /\ IsOptimal
    /\ \E r \in Rows(daily_kpi) : r.sold_before_120 > 0 /\ r.sold_last_30 > 0

\* The DailyKpi rows of listing l that meet the last-minute threshold 0.5.
Qualifying(r) == 2 * r.sold_last_30 >= r.total_sold
QualifyingOfListing(l) ==
    {r \in Rows(daily_kpi) : ListingKey(r) = l /\ Qualifying(r)}

\* C2: in global-best mode every listing with a qualifying DailyKpi row has
\* exactly one exemplar, which is one of its qualifying rows and has the
\* highest RevPAR among them; a listing without a qualifying row has none.
C2_GlobalBestPerListing ==
    (SelectionDone /\ IsOptimal) =>
        /\ \A b \in Rows(best_dates) : b \in Rows(daily_kpi) /\ Qualifying(b)
        /\ \A l \in Listings :
              LET ex == {i \in 1..Len(best_dates) : ListingKey(best_dates[i]) = l}
              IN IF QualifyingOfListing(l) = {} THEN ex = {}
                 ELSE /\ Cardinality(ex) = 1
                      /\ \A i \in ex : \A q \in QualifyingOfListing(l) :
                            q.total_revenue * best_dates[i].max_stock
                                <= best_dates[i].total_revenue * q.max_stock

\* A listing whose exemplar beats another qualifying row of its own, and a
\* listing without exemplar whose row does not qualify although its RevPAR
\* is higher than that of a qualifying row.
C2_Witness ==
    /\ SelectionDone /\ IsOptimal
    /\ \E b \in Rows(best_dates) : \E q \in QualifyingOfListing(ListingKey(b)) :
          RatLess(q.RevPAR, b.RevPAR)
    /\ \E r \in Rows(daily_kpi) :
          /\ QualifyingOfListing(ListingKey(r)) = {}
          /\ \A b \in Rows(best_dates) : ListingKey(b) # ListingKey(r)
          /\ \E q \in Rows(daily_kpi) : Qualifying(q) /\ RatLess(q.RevPAR, r.RevPAR)

\* The key best_dates is grouped by: the listing, or the price tier.
SelectionKey(r) == IF IsOptimal THEN ListingKey(r) ELSE <<r.price_tier>>

IndexOf(r) == CHOOSE i \in 1..Len(daily_kpi) : daily_kpi[i] = r

\* C6: when several qualifying rows of one grouping key share the maximal
\* RevPAR, the exemplar is the one that comes first in the DailyKpi table.
C6_TieBrokenByRowOrder ==
    SelectionDone =>
        \A b \in Rows(best_dates) :
            b.max_stock # NaN =>
                \A q \in Rows(daily_kpi) :
                    (Qualifying(q) /\ SelectionKey(q) = SelectionKey(b)
                        /\ RatEq(q.RevPAR, b.RevPAR))
                    => IndexOf(b) <= IndexOf(q)

TiersInUse == {r.price_tier : r \in Rows(daily_kpi)} \cup Rows(tier_labels)
QualifyingOfTier(t) ==
    {r \in Rows(daily_kpi) : r.price_tier = t /\ Qualifying(r)}

\* C3: in peer-group mode the exemplars are exactly one row per price tier
\* that has a qualifying row, a qualifying row of the tier with maximal
\* RevPAR; a tier without a qualifying row contributes no record at all
\* and is no error; there are at most num_tiers exemplars.
C3_PeerBestPerTier ==
    (SelectionDone /\ IsPeer) =>
        /\ pc # "error"
        /\ Len(best_dates) <= num_tiers
        /\ \A t \in TiersInUse :
              LET ex == {i \in 1..Len(best_dates) : best_dates[i].price_tier = t}
              IN IF QualifyingOfTier(t) = {} THEN ex = {}
                 ELSE /\ Cardinality(ex) = 1
                      /\ \A i \in ex :
                            /\ best_dates[i] \in QualifyingOfTier(t)
                            /\ \A q \in QualifyingOfTier(t) :
                                  RatLeq(q.RevPAR, best_dates[i].RevPAR)

\* The characteristic prices of the listings, each listing counted once.
RECURSIVE SetToSeq(_)
SetToSeq(S) ==
    IF S = {} THEN <<>>
    ELSE LET x == CHOOSE y \in S : TRUE IN <<x>> \o SetToSeq(S \ {x})

PricePerListing ==
    LET ls == SetToSeq({ListingKey(r) : r \in Rows(daily_kpi)})
    IN [i \in 1..Len(ls) |->
          (CHOOSE r \in Rows(daily_kpi) : ListingKey(r) = ls[i]).characteristic_price]

TierPerListing(r) ==
    IF QcutRaises(PricePerListing, num_tiers) THEN SingleGroup
    ELSE tier_labels[BinOf(r.characteristic_price,
                           QcutBins(PricePerListing, num_tiers))]

TiersAssigned == IsPeer /\ MetricsDone /\ pc # "kpi"

\* C7: every listing has one price tier, the quantile bucket of its
\* characteristic price among the listings' characteristic prices counted
\* once per listing, whatever the number of stay-date rows of any listing.
C7_TierPerListing ==
    TiersAssigned =>
        /\ \A r, q \in Rows(daily_kpi) :
              ListingKey(r) = ListingKey(q) => r.price_tier = q.price_tier
        /\ \A r \in Rows(daily_kpi) : r.price_tier = TierPerListing(r)

DistinctPrices == {r.characteristic_price : r \in Rows(daily_kpi)}

\* C8 as stated: with num_tiers = 3 and only 2 distinct characteristic
\* prices, every DailyKpi row gets the same tier and the run continues.
C8_TwoPricesFallBack ==
    (TiersAssigned /\ Cardinality(DistinctPrices) = 2) =>
        /\ \A r, q \in Rows(daily_kpi) : r.price_tier = q.price_tier
        /\ pc # "error"

\* C8 amended: with num_tiers = 3, only 2 distinct characteristic prices and
\* at least 3 DailyKpi rows, every DailyKpi row gets the single fallback
\* tier and the run continues to the end without an error.
C8_TwoPricesFallBackFromThreeRows ==
    (TiersAssigned /\ Cardinality(DistinctPrices) = 2 /\ Len(daily_kpi) >= 3) =>
        /\ \A r \in Rows(daily_kpi) : r.price_tier = SingleGroup
        /\ pc # "error"

\* A finished run over at least three rows with two distinct prices.
C8_Witness ==
    /\ IsPeer /\ pc = "done"
    /\ Cardinality(DistinctPrices) = 2 /\ Len(daily_kpi) >= 3
    /\ best_dates # <<>>

\* The file without its rows that have an unparseable date field.
WithoutUnparseable ==
    SelectSeq(csv, LAMBDA r : r.created_at # Unparseable /\ r.date # Unparseable)

\* C9: a row with an unparseable date or created_at is dropped silently and
\* is not fatal: the run goes on with the table it would have without it.
C9_UnparseableRowDropped ==
    (ToDatetimeRaises(csv) /\ pc # "read") =>
        /\ pc # "error"
        /\ pc = "metrics" => df = DropNa(WithoutUnparseable)

====
